---- MODULE Spec2Model ----
(***************************************************************************)
(* The signaling / media-session component VideoScreenWeb                  *)
(* (src/unnamed/part_000): its refs pc, ws, dataChannel and streamsAdded,  *)
(* the effect on [call] (renegotiate / cleanup), the signaling socket's    *)
(* callbacks and the peer connection's callbacks.                          *)
(*                                                                         *)
(* Scheduling follows the JavaScript event loop: a handler runs to its     *)
(* next await; the continuation of `await setupPeerConnection(call)` is a  *)
(* microtask, which runs before the next task (an effect flush, a socket   *)
(* or media event); the continuation of an awaited media-stack call runs   *)
(* in a later task, so that other events come in between.  A media-stack   *)
(* call takes effect in call order (the peer connection's operations       *)
(* chain).                                                                 *)
(***************************************************************************)
EXTENDS Integers, Sequences, FiniteSets, TLC

VARIABLES
    phase,          \* "new" | "mounted" | "discarded": the component
    call,           \* the prop `call` (the connection directive)
    dirHist,        \* history: the value of `call` at each run of the effect
    pending,        \* renegotiate() calls suspended at `await setupPeerConnection`
    pc,             \* pc.current: 0 is null, else the session's number
    sessions,       \* every RTCPeerConnection constructed, by number
    ws,             \* ws.current: 0 is null, else the socket's number
    wsState,        \* ws.current.readyState
    socketsOpened,  \* history: number of `new WebSocket(...)`
    openAt,         \* history: Len(dirHist) when onopen fired (0: not yet)
    isConnected,    \* last value given to setIsConnected
    dataChannel,    \* dataChannel.current: 0 is null, else its session's number
    streamsAdded,   \* streamsAdded.current
    slotA,          \* last stream given to setStreamLeft (its track's number)
    slotB,          \* last stream given to setStreamRight
    tracksIn,       \* history: tracks delivered to pc.ontrack
    sent,           \* what ws.send() put on the wire, in order
    handlers,       \* ws.onmessage calls suspended at an await, oldest first
    inCount,        \* history: envelopes delivered to ws.onmessage
    goodOffers,     \* history: well-formed offer envelopes delivered
    uncaught,       \* an exception or rejection escaped a handler
    \* The hand-telemetry part of StereoVR (src/src/StereoVR.tsx)
    xr,             \* startVR(): "idle" | "awaitSocket" | "looping" | "done"
    xrEnded,        \* the XR session has ended
    wsRef,          \* wsRef.current: 0 is null, else the socket's number
    tsState,        \* readyState of the telemetry socket ("NONE": not constructed)
    lastHandSendRef,\* lastHandSendRef.current, in TimeUnit
    now,            \* performance.now() of the last tick, in TimeUnit
    t0,             \* history: performance.now() of the first tick (-1: none yet)
    regular,        \* history: every tick so far came 1 ms after the one before
    accepted,       \* history: ticks that passed the rate gate
    tick,           \* the arguments of the last handleHandTracking call
    out,            \* what the last step put on the telemetry wire
    tfirst,         \* history: kind of the first message on the telemetry wire
    tcount,         \* history: number of messages put on the telemetry wire
    tUncaught,      \* an exception or rejection escaped StereoVR's code
    \* Histories of what the components put out
    localCands,     \* local ICE candidates given to pc.onicecandidate
    dcSent,         \* messages the component sent on a data channel
    lastSent        \* performance.now() of the last tick that sent a frame (-1: none)

svars == <<phase, call, dirHist, pending, pc, sessions, ws, wsState,
          socketsOpened, openAt, isConnected, dataChannel, streamsAdded,
          slotA, slotB, tracksIn, sent, handlers, inCount, goodOffers,
          uncaught>>

tvars == <<xr, xrEnded, wsRef, tsState, lastHandSendRef, now, t0, regular,
          accepted, tick, out, tfirst, tcount, tUncaught>>

xvars == <<localCands, dcSent, lastSent>>

vars == <<svars, tvars, xvars>>

\* Bound of the model: the events the environment may cause after the mount
\* (a change of `call`, the discard, a socket event, an inbound envelope, a
\* track, a data channel, a local ICE candidate, a change of `vector` that
\* sends).  Continuations of the component's own async functions are not
\* counted.
MaxEvents == 6

\* Remote ICE candidates.
Cands == {1}
NoStream == 0

----------------------------------------------------------------------------
\* The media stack (RTCPeerConnection), as far as the component uses it.

\* new RTCPeerConnection(configuration)
NewSession ==
    [closed |-> FALSE, sig |-> "stable", remote |-> FALSE, cands |-> {},
     early |-> {}, dc |-> "none", slots |-> <<>>]

\* pc.close(); closing a closed connection changes nothing.
ClosePc(s) ==
    [s EXCEPT !.closed = TRUE, !.sig = "closed",
              !.dc = IF s.dc = "none" THEN "none" ELSE "closed"]

\* dataChannel.close(); closing a closed channel changes nothing.
CloseDc(s) == [s EXCEPT !.dc = IF s.dc = "none" THEN "none" ELSE "closed"]

\* setRemoteDescription(offer): rejected on a closed connection and for a
\* description the stack cannot parse.
SetRemoteOk(s, wellFormed) == ~s.closed /\ wellFormed
SetRemote(s, wellFormed) ==
    IF SetRemoteOk(s, wellFormed)
    THEN [s EXCEPT !.sig = "have-remote-offer", !.remote = TRUE]
    ELSE s

\* createAnswer(): needs a remote offer to answer.
CreateAnswerOk(s) == ~s.closed /\ s.sig = "have-remote-offer"

\* setLocalDescription(answer): needs the remote offer still unanswered, and
\* an answer this connection created.
SetLocalOk(s, n, answer) ==
    ~s.closed /\ s.sig = "have-remote-offer" /\ answer = n
SetLocal(s, n, answer) ==
    IF SetLocalOk(s, n, answer) THEN [s EXCEPT !.sig = "stable"] ELSE s

\* addIceCandidate(c): rejected while the remote description is null.
AddIceOk(s) == ~s.closed /\ s.remote
AddIce(s, c) ==
    IF AddIceOk(s) THEN [s EXCEPT !.cands = @ \cup {c}] ELSE s

----------------------------------------------------------------------------
\* ws.send(data) through `ws.current?.send`: nothing without a socket, an
\* InvalidStateError while CONNECTING, put on the wire while OPEN, silently
\* discarded while CLOSED.
WsSend(log, w, st, m) == IF w # 0 /\ st = "OPEN" THEN Append(log, m) ELSE log

Hello == [t |-> "hello", by |-> 0]
\* {sdp: answer}: by is the session that created the answer, 0 for undefined
SdpMsg(by) == [t |-> "sdp", by |-> by]

IsHello(m) == m.t = "hello"
IsAnswer(m) == m.t = "sdp" /\ m.by # 0
IsEmptySdp(m) == m.t = "sdp" /\ m.by = 0
Hellos(log) == Cardinality({i \in 1..Len(log) : IsHello(log[i])})
Answers(log) == Cardinality({i \in 1..Len(log) : IsAnswer(log[i])})

----------------------------------------------------------------------------
\* cleanup(), on the refs it touches.
Refs == [pc |-> pc, dataChannel |-> dataChannel, sessions |-> sessions]

\* Mutant: the refs are dropped and the connection is left open.
CleanupNoClose(r) == [pc |-> 0, dataChannel |-> 0, sessions |-> r.sessions]

\* Mutant: `dataChannel.current = null` is missing.
CleanupKeepsChannel(r) ==
    LET s1 == IF r.dataChannel # 0
              THEN [r.sessions EXCEPT ![r.dataChannel] = CloseDc(@)]
              ELSE r.sessions
        s2 == IF r.pc # 0 THEN [s1 EXCEPT ![r.pc] = ClosePc(@)] ELSE s1
    IN  [pc |-> 0, dataChannel |-> r.dataChannel, sessions |-> s2]

Cleanup(r) ==
    LET s1 == IF r.dataChannel # 0
              THEN [r.sessions EXCEPT ![r.dataChannel] = CloseDc(@)]
              ELSE r.sessions
        \* getSenders(): the component adds no local track, nothing to stop
        s2 == IF r.pc # 0 THEN [s1 EXCEPT ![r.pc] = ClosePc(@)] ELSE s1
    IN  [pc |-> 0, dataChannel |-> 0, sessions |-> s2]

\* A member access on a ref: `x.current?.m()` skips a null ref, `x.current.m()`
\* throws a TypeError on it.
DerefThrows(ref, guarded) == ref = 0 /\ ~guarded

\* cleanup() guards each of its three accesses with `?.`.
CleanupThrows(r) ==
    \/ DerefThrows(r.dataChannel, TRUE)
    \/ DerefThrows(r.pc, TRUE)

\* setupPeerConnection(): no await inside, so it runs within the caller.
SetupPeerConnection(r) ==
    [r EXCEPT !.sessions = Append(r.sessions, NewSession),
              !.pc = Len(r.sessions) + 1]

\* renegotiate() up to its await.
RenegotiateStart(r) == SetupPeerConnection(Cleanup(r))

----------------------------------------------------------------------------
\* Hand telemetry (StereoVR.handleHandTracking): the frame it builds.

\* Times are counted in thirds of a millisecond, which makes the send
\* interval 1000 / 60 ms a whole number (50 thirds).
TimeUnit == 3
sendInterval == 50

\* The rate gate: `if (now - lastHandSendRef.current < sendInterval) return`.
\* Mutant: the tick that comes exactly one interval later is dropped too.
GateDropsAtInterval(t, last) == t - last <= sendInterval
GateDrops(t, last) == t - last < sendInterval

JOINT_ORDER ==
    << "wrist",
       "thumb-metacarpal", "thumb-phalanx-proximal", "thumb-phalanx-distal",
       "thumb-tip",
       "index-finger-metacarpal", "index-finger-phalanx-proximal",
       "index-finger-phalanx-intermediate", "index-finger-phalanx-distal",
       "index-finger-tip",
       "middle-finger-metacarpal", "middle-finger-phalanx-proximal",
       "middle-finger-phalanx-intermediate", "middle-finger-phalanx-distal",
       "middle-finger-tip",
       "ring-finger-metacarpal", "ring-finger-phalanx-proximal",
       "ring-finger-phalanx-intermediate", "ring-finger-phalanx-distal",
       "ring-finger-tip",
       "pinky-finger-metacarpal", "pinky-finger-phalanx-proximal",
       "pinky-finger-phalanx-intermediate", "pinky-finger-phalanx-distal",
       "pinky-finger-tip" >>

\* The 4x4 identity, as the code pushes it.
Identity == <<1, 0, 0, 0,  0, 1, 0, 0,  0, 0, 1, 0,  0, 0, 0, 1>>

\* An XRJointSpace is an object of the device: here the number of its hand
\* and of its joint.  An XRHand is a Map from joint names to joint spaces:
\* here the sequence of its entries, in the order the map enumerates them.
HandNo(h) == IF h = "left" THEN 1 ELSE 2
JointSpace(h, i) == <<HandNo(h), i>>
NoJoint == <<>>

\* hand.get(jointName): undefined (NoJoint) when the map has no such key.
HandGet(hand, jointName) ==
    LET at == {i \in DOMAIN hand : hand[i].name = jointName}
    IN  IF at = {} THEN NoJoint ELSE hand[CHOOSE i \in at : TRUE].space

\* jointPose.transform.matrix: 16 numbers, here told apart by hand, joint
\* and position, and never those of the identity.
JointMatrix(space) ==
    LET base == 1000 * space[1] + 20 * space[2] + 1
    IN  [k \in 1..16 |-> base + k]

\* One turn of the loop over JOINT_ORDER: the 16 values pushed for a joint.
\* frame.posed holds the joint spaces frame.getJointPose() has a pose for.
\* Mutant: a joint without a pose is skipped.
JointValuesSkipsUnresolved(hand, frame, jointName) ==
    LET joint == HandGet(hand, jointName)
    IN  IF joint # NoJoint /\ frame.hasGetJointPose /\ joint \in frame.posed
        THEN JointMatrix(joint) ELSE <<>>
JointValues(hand, frame, jointName) ==
    LET joint == HandGet(hand, jointName)
    IN  IF joint # NoJoint /\ frame.hasGetJointPose
        THEN IF joint \in frame.posed THEN JointMatrix(joint) ELSE Identity
        ELSE Identity

\* Whether a joint of a hand resolves to a pose in a frame.
Resolved(hand, frame, jointName) ==
    LET joint == HandGet(hand, jointName)
    IN  joint # NoJoint /\ frame.hasGetJointPose /\ joint \in frame.posed

RECURSIVE PushJoints(_, _, _)
PushJoints(hand, frame, i) ==
    IF i = 0 THEN <<>>
    ELSE PushJoints(hand, frame, i - 1) \o JointValues(hand, frame, JOINT_ORDER[i])

RECURSIVE PushEntries(_, _, _)
PushEntries(hand, frame, i) ==
    IF i = 0 THEN <<>>
    ELSE PushEntries(hand, frame, i - 1) \o JointValues(hand, frame, hand[i].name)

\* continuousArray of one hand.
\* Mutant: the loop runs over the hand's own entries instead of JOINT_ORDER.
ContinuousArrayByEnumeration(hand, frame) == PushEntries(hand, frame, Len(hand))
ContinuousArray(hand, frame) == PushJoints(hand, frame, Len(JOINT_ORDER))

\* handData, a JSON object: a function from its keys.
EmptyObject == [k \in {} |-> <<>>]
SetKey(o, k, v) == [x \in DOMAIN o \cup {k} |-> IF x = k THEN v ELSE o[x]]

\* `if (inputSource.hand)`.
\* Mutant: every input source is taken for a hand.
TrackedAlways(src) == TRUE
Tracked(src) == src.hasHand

RECURSIVE BuildHandData(_, _, _)
BuildHandData(sources, frame, i) ==
    IF i = 0 THEN EmptyObject
    ELSE LET acc == BuildHandData(sources, frame, i - 1)
             src == sources[i]
         IN  IF Tracked(src)
             THEN SetKey(acc, src.handedness, ContinuousArray(src.hand, frame))
             ELSE acc

HandData(sources, frame) == BuildHandData(sources, frame, Len(sources))

\* Telemetry messages.
Role == [t |-> "role", data |-> EmptyObject]
Frame(handData) == [t |-> "frame", data |-> handData]

\* WebSocket.send() through a ref: throws on a null ref (TypeError) and on a
\* connecting socket (InvalidStateError); a closing or closed socket drops
\* the data.
SendThrows(ref, st) == ref = 0 \/ st = "CONNECTING"
OnWire(ref, st, m) == IF ref # 0 /\ st = "OPEN" THEN <<m>> ELSE <<>>
\* Mutant: the send is not inside try / catch.
EscapesAlways(throws, guarded) == throws
Escapes(throws, guarded) == throws /\ ~guarded

\* The inputs of a tick: frame.session.inputSources and the frame's poses.
Handedness == {"left", "right"}
AllSpaces == {JointSpace(h, i) : h \in Handedness, i \in DOMAIN JOINT_ORDER}

CanonicalHand(h) ==
    [i \in DOMAIN JOINT_ORDER |->
        [name |-> JOINT_ORDER[i], space |-> JointSpace(h, i)]]
ReversedHand(h) ==
    [i \in DOMAIN JOINT_ORDER |-> CanonicalHand(h)[Len(JOINT_ORDER) + 1 - i]]

\* Hands: every joint in canonical order, every joint in reverse order, the
\* reverse order without the wrist, the wrist and the thumb only, no joint.
Hands(h) ==
    { CanonicalHand(h), ReversedHand(h),
      SubSeq(ReversedHand(h), 1, Len(JOINT_ORDER) - 1),
      SubSeq(CanonicalHand(h), 1, 5), <<>> }

Source(h, hand) == [handedness |-> h, hasHand |-> TRUE, hand |-> hand]
Controller(h) == [handedness |-> h, hasHand |-> FALSE, hand |-> <<>>]

\* Poses: of every joint, of every second joint, of the left hand's joints
\* only (none of the right hand's); and a frame without getJointPose.
PosedSets ==
    { AllSpaces,
      {s \in AllSpaces : s[2] % 2 = 0},
      {s \in AllSpaces : s[1] = HandNo("left")} }
Frames ==
    {[hasGetJointPose |-> TRUE, posed |-> p] : p \in PosedSets}
    \cup {[hasGetJointPose |-> FALSE, posed |-> AllSpaces]}

FrameSources ==
    {<<>>}
    \cup {<<Source("left", x)>> : x \in Hands("left")}
    \cup {<<Source("right", CanonicalHand("right"))>>}
    \cup {<<Source("left", ReversedHand("left")),
            Source("right", CanonicalHand("right"))>>,
          <<Source("right", ReversedHand("right")),
            Source("left", CanonicalHand("left"))>>}
    \cup {<<Controller("left")>>,
          <<Controller("right"), Source("left", CanonicalHand("left"))>>}

\* The ticks that probe the frames: one interval after the tick before with
\* every hand and frame above, and once each without a viewer pose and
\* with no time gone by.
FrameTicks ==
    {[d |-> sendInterval, pose |-> TRUE, sources |-> s, frame |-> f] :
        s \in FrameSources, f \in Frames}
    \cup {[d |-> 0, pose |-> FALSE, sources |-> <<>>,
            frame |-> [hasGetJointPose |-> TRUE, posed |-> {}]],
          [d |-> 0, pose |-> TRUE, sources |-> <<>>,
            frame |-> [hasGetJointPose |-> TRUE, posed |-> {}]]}

\* For the rate gate: 1 ms, just short of the interval, the interval; the
\* gate comes before the handler looks at the input sources.
GateSteps == {TimeUnit, sendInterval - 1, sendInterval}
GateSources == {<<>>}
GateFrames == {[hasGetJointPose |-> TRUE, posed |-> AllSpaces]}

\* Next to the media session's lifecycle: no hand, or the left hand.
PlayerSources == {<<>>, <<Source("left", CanonicalHand("left"))>>}

\* Bounds of the telemetry models: the time explored after the first tick
\* (in TimeUnit: 100 ms); the ticks that pass the gate, where the frames
\* are what is looked at, and next to the media session's lifecycle.
MaxWindow == 300
MaxFrames == 1
MaxSamples == 3

NoTick == [sources |-> <<>>, frame |-> [hasGetJointPose |-> FALSE, posed |-> {}]]

TInit ==
    /\ xr = "idle"
    /\ xrEnded = FALSE
    /\ wsRef = 0
    /\ tsState = "NONE"
    /\ lastHandSendRef = 0
    /\ now = 0
    /\ t0 = -1
    /\ regular = TRUE
    /\ accepted = 0
    /\ tick = NoTick
    /\ out = <<>>
    /\ tfirst = "none"
    /\ tcount = 0
    /\ tUncaught = FALSE

----------------------------------------------------------------------------
\* Events caused so far; every one of them leaves its mark in the state.
Events ==
    (IF dirHist = <<>> THEN 0 ELSE Len(dirHist) - 1)
    + (IF phase = "discarded" THEN 1 ELSE 0)
    + (IF openAt # 0 THEN 1 ELSE 0) + (IF wsState = "CLOSED" THEN 1 ELSE 0)
    + inCount + tracksIn + localCands + dcSent
    + Cardinality({n \in DOMAIN sessions : sessions[n].dc # "none"})
Budget == Events < MaxEvents

\* A task (an effect flush, a socket or media event) starts only with no
\* microtask left.
Idle == pending = <<>> /\ Budget

Init ==
    /\ phase = "new"
    /\ call \in BOOLEAN
    /\ dirHist = <<>>
    /\ pending = <<>>
    /\ pc = 0
    /\ sessions = <<>>
    /\ ws = 0
    /\ wsState = "NONE"
    /\ socketsOpened = 0
    /\ openAt = 0
    /\ isConnected = FALSE
    /\ dataChannel = 0
    /\ streamsAdded = 0
    /\ slotA = NoStream
    /\ slotB = NoStream
    /\ tracksIn = 0
    /\ sent = <<>>
    /\ handlers = <<>>
    /\ inCount = 0
    /\ goodOffers = 0
    /\ uncaught = FALSE
    /\ TInit
    /\ localCands = 0
    /\ dcSent = 0
    /\ lastSent = -1

\* First run of the effect on [call]: renegotiate().
Mount ==
    /\ phase = "new"
    /\ phase' = "mounted"
    /\ LET r == RenegotiateStart(Refs)
       IN  /\ pc' = r.pc
           /\ dataChannel' = r.dataChannel
           /\ sessions' = r.sessions
    /\ dirHist' = Append(dirHist, call)
    /\ pending' = Append(pending, call)
    /\ UNCHANGED <<call, ws, wsState, socketsOpened, openAt, isConnected,
                   streamsAdded, slotA, slotB, tracksIn, sent, handlers, inCount,
                   goodOffers, uncaught>>
    /\ UNCHANGED tvars
    /\ UNCHANGED xvars

\* The prop `call` changes: the effect's cleanup runs, then renegotiate().
SetCall ==
    /\ Idle
    /\ phase = "mounted"
    /\ call' = ~call
    /\ LET r == RenegotiateStart(Cleanup(Refs))
       IN  /\ pc' = r.pc
           /\ dataChannel' = r.dataChannel
           /\ sessions' = r.sessions
    /\ dirHist' = Append(dirHist, call')
    /\ pending' = Append(pending, call')
    /\ UNCHANGED <<phase, ws, wsState, socketsOpened, openAt, isConnected,
                   streamsAdded, slotA, slotB, tracksIn, sent, handlers, inCount,
                   goodOffers, uncaught>>
    /\ UNCHANGED tvars
    /\ UNCHANGED xvars

\* The component is discarded: the effect's cleanup runs.
Discard ==
    /\ Idle
    /\ phase = "mounted"
    /\ phase' = "discarded"
    /\ LET r == Cleanup(Refs)
       IN  /\ pc' = r.pc
           /\ dataChannel' = r.dataChannel
           /\ sessions' = r.sessions
    /\ UNCHANGED <<call, dirHist, pending, ws, wsState, socketsOpened, openAt,
                   isConnected, streamsAdded, slotA, slotB, tracksIn, sent, handlers,
                   inCount, goodOffers, uncaught>>
    /\ UNCHANGED tvars
    /\ UNCHANGED xvars

\* renegotiate() after its await: which branch it takes.
\* Mutant: every renegotiation opens a socket of its own.
NeedsSocketAlways(w) == TRUE
NeedsSocket(w) == w = 0
\* Mutant: the readyState test is inverted.
SendsHelloInverted(st) == st # "OPEN"
SendsHello(st) == st = "OPEN"

RenegotiateResume ==
    /\ pending # <<>>
    /\ pending' = Tail(pending)
    /\ IF NeedsSocket(ws)
       THEN \* setupWebSocket()
            /\ ws' = socketsOpened + 1
            /\ socketsOpened' = socketsOpened + 1
            /\ wsState' = "CONNECTING"
            /\ sent' = sent
       ELSE /\ sent' = IF SendsHello(wsState)
                       THEN WsSend(sent, ws, wsState, Hello) ELSE sent
            /\ UNCHANGED <<ws, socketsOpened, wsState>>
    /\ UNCHANGED <<phase, call, dirHist, pc, sessions, openAt, isConnected,
                   dataChannel, streamsAdded, slotA, slotB, tracksIn, handlers, inCount,
                   goodOffers, uncaught>>
    /\ UNCHANGED tvars
    /\ UNCHANGED xvars

\* ws.onopen
WsOpen ==
    /\ Idle
    /\ ws # 0 /\ wsState = "CONNECTING"
    /\ wsState' = "OPEN"
    /\ isConnected' = TRUE
    /\ openAt' = Len(dirHist)
    /\ sent' = WsSend(sent, ws, "OPEN", Hello)
    /\ UNCHANGED <<phase, call, dirHist, pending, pc, sessions, ws,
                   socketsOpened, dataChannel, streamsAdded, slotA, slotB, tracksIn,
                   handlers, inCount, goodOffers, uncaught>>
    /\ UNCHANGED tvars
    /\ UNCHANGED xvars

\* ws.onerror / ws.onclose: the connect fails, or the open socket closes.
WsClose ==
    /\ Idle
    /\ ws # 0 /\ wsState \in {"CONNECTING", "OPEN"}
    /\ wsState' = "CLOSED"
    /\ isConnected' = FALSE
    /\ UNCHANGED <<phase, call, dirHist, pending, pc, sessions, ws,
                   socketsOpened, openAt, dataChannel, streamsAdded, slotA,
                   slotB, tracksIn, sent, handlers, inCount, goodOffers, uncaught>>
    /\ UNCHANGED tvars
    /\ UNCHANGED xvars

----------------------------------------------------------------------------
\* Inbound signaling envelopes: an offer (well-formed or not), an ICE
\* candidate, or anything else (neither `if` of onmessage takes it).
Msgs ==
    {[kind |-> "offer", good |-> g, cand |-> 0] : g \in BOOLEAN}
    \cup {[kind |-> "ice", good |-> TRUE, cand |-> c] : c \in Cands}
    \cup {[kind |-> "other", good |-> TRUE, cand |-> 0]}

\* An onmessage call suspended at `await`: the media-stack call it waits for
\* (at), whether that call resolves (ok), the answer it holds, and the session
\* its offer was set on.
Suspended(kind, at, ok, answer, on) ==
    [kind |-> kind, at |-> at, ok |-> ok, answer |-> answer, on |-> on]

\* ws.onmessage up to its first await.  With pc.current null every
\* `await pc.current?.f()` awaits undefined, a microtask: the handler then
\* runs through to its send with nothing in between.
OnMessage(m) ==
    /\ Idle
    /\ ws # 0 /\ wsState = "OPEN"
    /\ inCount' = inCount + 1
    /\ goodOffers' = IF m.kind = "offer" /\ m.good
                     THEN goodOffers + 1 ELSE goodOffers
    /\ CASE m.kind = "offer" /\ pc = 0 ->
                /\ sent' = WsSend(sent, ws, wsState, SdpMsg(0))
                /\ UNCHANGED <<sessions, handlers>>
         [] m.kind = "offer" /\ pc # 0 ->
                /\ sessions' = [sessions EXCEPT ![pc] = SetRemote(@, m.good)]
                /\ handlers' = Append(handlers,
                       Suspended("offer", "srd",
                                 SetRemoteOk(sessions[pc], m.good), 0, pc))
                /\ sent' = sent
         [] m.kind = "ice" /\ pc = 0 ->
                UNCHANGED <<sessions, handlers, sent>>
         [] m.kind = "ice" /\ pc # 0 ->
                /\ sessions' = [sessions EXCEPT ![pc] =
                       [AddIce(@, m.cand) EXCEPT !.early =
                           IF sessions[pc].remote THEN @ ELSE @ \cup {m.cand}]]
                /\ handlers' = Append(handlers,
                       Suspended("ice", "add", AddIceOk(sessions[pc]), 0, pc))
                /\ sent' = sent
         [] m.kind = "other" ->
                UNCHANGED <<sessions, handlers, sent>>
    /\ UNCHANGED <<phase, call, dirHist, pending, pc, ws, wsState,
                   socketsOpened, openAt, isConnected, dataChannel,
                   streamsAdded, slotA, slotB, tracksIn, uncaught>>
    /\ UNCHANGED tvars
    /\ UNCHANGED xvars

\* A rejected await leaves the handler unless it sits in try / catch.
\* Mutant: the catch is missing.
UnhandledAlways(rejected, inTry) == rejected
Unhandled(rejected, inTry) == rejected /\ ~inTry

\* The oldest suspended onmessage call goes on, to its next await or its end.
Resume ==
    /\ pending = <<>>
    /\ handlers # <<>>
    /\ LET h == Head(handlers)
           rest == Tail(handlers)
       IN  CASE h.kind = "ice" ->
                    \* resolved, or rejected and caught (console.warn)
                    /\ handlers' = rest
                    /\ uncaught' = (uncaught \/ Unhandled(~h.ok, TRUE))
                    /\ UNCHANGED <<sessions, sent>>
             [] h.kind = "offer" /\ ~h.ok ->
                    \* the rejection leaves the async handler
                    /\ handlers' = rest
                    /\ uncaught' = TRUE
                    /\ UNCHANGED <<sessions, sent>>
             [] h.kind = "offer" /\ h.ok /\ h.at = "srd" /\ pc = 0 ->
                    /\ handlers' = rest
                    /\ sent' = WsSend(sent, ws, wsState, SdpMsg(0))
                    /\ UNCHANGED <<sessions, uncaught>>
             [] h.kind = "offer" /\ h.ok /\ h.at = "srd" /\ pc # 0 ->
                    /\ handlers' = Append(rest,
                           Suspended("offer", "ca", CreateAnswerOk(sessions[pc]),
                               IF CreateAnswerOk(sessions[pc]) THEN pc ELSE 0,
                               h.on))
                    /\ UNCHANGED <<sessions, sent, uncaught>>
             [] h.kind = "offer" /\ h.ok /\ h.at = "ca" /\ pc = 0 ->
                    /\ handlers' = rest
                    /\ sent' = WsSend(sent, ws, wsState, SdpMsg(h.answer))
                    /\ UNCHANGED <<sessions, uncaught>>
             [] h.kind = "offer" /\ h.ok /\ h.at = "ca" /\ pc # 0 ->
                    /\ sessions' = [sessions EXCEPT ![pc] =
                                        SetLocal(@, pc, h.answer)]
                    /\ handlers' = Append(rest,
                           Suspended("offer", "sld",
                               SetLocalOk(sessions[pc], pc, h.answer),
                               h.answer, h.on))
                    /\ UNCHANGED <<sent, uncaught>>
             [] h.kind = "offer" /\ h.ok /\ h.at = "sld" ->
                    /\ handlers' = rest
                    /\ sent' = WsSend(sent, ws, wsState, SdpMsg(h.answer))
                    /\ UNCHANGED <<sessions, uncaught>>
    /\ UNCHANGED <<phase, call, dirHist, pending, pc, ws, wsState,
                   socketsOpened, openAt, isConnected, dataChannel,
                   streamsAdded, slotA, slotB, tracksIn, inCount, goodOffers>>
    /\ UNCHANGED tvars
    /\ UNCHANGED xvars

----------------------------------------------------------------------------
\* Events of the live peer connection.  The remote peer's tracks and data
\* channel are announced by its offer, so they follow setRemoteDescription.
Announcing == pc # 0 /\ ~sessions[pc].closed /\ sessions[pc].remote

\* pc.ontrack: which slot a video track goes to.
GoesLeft(n) == n = 0

OnTrack(kind) ==
    /\ Idle
    /\ Announcing
    /\ tracksIn' = tracksIn + 1
    /\ IF kind # "video"
       THEN UNCHANGED <<streamsAdded, slotA, slotB, sessions>>
       ELSE IF GoesLeft(streamsAdded)
            THEN /\ slotA' = tracksIn + 1
                 /\ streamsAdded' = streamsAdded + 1
                 /\ sessions' = [sessions EXCEPT ![pc].slots = Append(@, "A")]
                 /\ slotB' = slotB
            ELSE /\ slotB' = tracksIn + 1
                 /\ sessions' = [sessions EXCEPT ![pc].slots = Append(@, "B")]
                 /\ UNCHANGED <<streamsAdded, slotA>>
    /\ UNCHANGED <<phase, call, dirHist, pending, pc, ws, wsState,
                   socketsOpened, openAt, isConnected, dataChannel, sent,
                   handlers, inCount, goodOffers, uncaught>>
    /\ UNCHANGED tvars
    /\ UNCHANGED xvars

\* pc.ondatachannel
OnDataChannel ==
    /\ Idle
    /\ Announcing
    /\ sessions[pc].dc = "none"
    /\ dataChannel' = pc
    /\ sessions' = [sessions EXCEPT ![pc].dc = "open"]
    /\ UNCHANGED <<phase, call, dirHist, pending, pc, ws, wsState,
                   socketsOpened, openAt, isConnected, streamsAdded, slotA,
                   slotB, tracksIn, sent, handlers, inCount, goodOffers,
                   uncaught>>
    /\ UNCHANGED tvars
    /\ UNCHANGED xvars

\* {ice: {candidate, sdpMLineIndex}} for the local candidate c
IceMsg(c) == [t |-> "ice", by |-> c]
IsIce(m) == m.t = "ice"
IceMsgs(log) == Cardinality({i \in 1..Len(log) : IsIce(log[i])})

\* pc.onicecandidate: `if (event.candidate && ws.current)`.
\* Mutant: the event that ends gathering (candidate null) is sent as well.
SendsCandidateAlways(c, w) == w # 0
SendsCandidate(c, w) == c # 0 /\ w # 0

\* A session gathers local candidates once its local description is set;
\* a closed connection fires no events.
Gathering(n) ==
    /\ ~sessions[n].closed
    /\ sessions[n].remote /\ sessions[n].sig = "stable"

\* pc.onicecandidate of session n, with candidate c (0: the null candidate
\* that ends gathering).  The handler reads ws.current when it runs.
OnIceCandidate(n, c) ==
    /\ Idle
    /\ Gathering(n)
    /\ localCands' = IF c # 0 THEN localCands + 1 ELSE localCands
    /\ IF SendsCandidate(c, ws)
       THEN /\ sent' = WsSend(sent, ws, wsState, IceMsg(c))
            /\ uncaught' = (uncaught \/ wsState = "CONNECTING")
       ELSE UNCHANGED <<sent, uncaught>>
    /\ UNCHANGED <<phase, call, dirHist, pending, pc, sessions, ws, wsState,
                   socketsOpened, openAt, isConnected, dataChannel,
                   streamsAdded, slotA, slotB, tracksIn, handlers, inCount,
                   goodOffers>>
    /\ UNCHANGED tvars
    /\ UNCHANGED <<dcSent, lastSent>>

\* dataChannel.current?.readyState === 'open'
ChannelOpen(r) ==
    r.dataChannel # 0 /\ r.sessions[r.dataChannel].dc = "open"

\* The effect on [vector]: it runs again whenever the host renders the
\* component with another `vector` object.
SetVector ==
    /\ Idle
    /\ phase = "mounted"
    /\ dcSent' = IF ChannelOpen(Refs) THEN dcSent + 1 ELSE dcSent
    /\ UNCHANGED svars
    /\ UNCHANGED tvars
    /\ UNCHANGED <<localCands, lastSent>>

Next ==
    \/ Mount
    \/ SetCall
    \/ Discard
    \/ RenegotiateResume
    \/ WsOpen
    \/ WsClose
    \/ \E m \in Msgs : OnMessage(m)
    \/ Resume
    \/ \E kind \in {"video", "audio"} : OnTrack(kind)
    \/ OnDataChannel

Spec == Init /\ [][Next]_vars

\* The component with its local candidates and its `vector` prop, the
\* remote tracks left aside.
SideNext ==
    \/ Mount
    \/ SetCall
    \/ Discard
    \/ RenegotiateResume
    \/ WsOpen
    \/ WsClose
    \/ \E m \in Msgs : OnMessage(m)
    \/ Resume
    \/ OnDataChannel
    \/ \E n \in DOMAIN sessions, c \in {0} \cup Cands : OnIceCandidate(n, c)
    \/ SetVector

SpecSide == Init /\ [][SideNext]_vars

----------------------------------------------------------------------------
\* StereoVR: startVR(), the telemetry socket, the XR session, the frame loop.

\* What a step puts on the telemetry wire.
Emit(msgs) ==
    /\ out' = msgs
    /\ tcount' = tcount + Len(out')
    /\ tfirst' = IF tfirst = "none" /\ out' # <<>> THEN out'[1].t ELSE tfirst

\* The button's onClick: startVR() up to `await setupHandTrackingWebSocket()`.
\* Without WebXR, VR or WebGL it returns early.  When `new WebSocket(url)`
\* throws, the catch only logs and the promise is never settled.
StartVR(supported, constructs) ==
    /\ xr = "idle"
    /\ IF ~supported
       THEN xr' = "done" /\ tsState' = tsState
       ELSE /\ xr' = "awaitSocket"
            /\ tsState' = IF constructs THEN "CONNECTING" ELSE "NONE"
    /\ Emit(<<>>)
    /\ UNCHANGED <<xrEnded, wsRef, lastHandSendRef, now, t0, regular,
                   accepted, tick, tUncaught>>
    /\ UNCHANGED svars
    /\ UNCHANGED xvars

\* startVR() after the await: the 'end' listener is added and the first
\* animation frame requested, which throws on a session that has ended; the
\* rejection of startVR() is handled nowhere.
StartLoop(threw) ==
    /\ xr' = IF xrEnded THEN "done" ELSE "looping"
    /\ tUncaught' = (tUncaught \/ threw \/ xrEnded)

\* webSocket.onopen sends this before anything else.
\* Mutant: the socket is taken into use without the announcement.
AnnouncementMissing == <<>>
Announcement == <<Role>>

\* webSocket.onopen: the announcement, wsRef.current = webSocket,
\* resolve(true).
TsOpen ==
    /\ tsState = "CONNECTING"
    /\ tsState' = "OPEN"
    /\ Emit(Announcement)
    /\ wsRef' = 1
    /\ StartLoop(Escapes(SendThrows(1, "OPEN"), FALSE))
    /\ UNCHANGED <<xrEnded, lastHandSendRef, now, t0, regular, accepted, tick>>
    /\ UNCHANGED svars
    /\ UNCHANGED xvars

\* webSocket.onerror: resolve(false); wsRef.current stays null.
TsError ==
    /\ tsState = "CONNECTING"
    /\ tsState' = "CLOSED"
    /\ Emit(<<>>)
    /\ StartLoop(FALSE)
    /\ UNCHANGED <<xrEnded, wsRef, lastHandSendRef, now, t0, regular,
                   accepted, tick>>
    /\ UNCHANGED svars
    /\ UNCHANGED xvars

\* webSocket.onclose of the open socket: a log line.
TsClose ==
    /\ tsState = "OPEN"
    /\ tsState' = "CLOSED"
    /\ Emit(<<>>)
    /\ UNCHANGED <<xr, xrEnded, wsRef, lastHandSendRef, now, t0, regular,
                   accepted, tick, tUncaught>>
    /\ UNCHANGED svars
    /\ UNCHANGED xvars

\* The session's 'end' listener.
EndListener(ref, st) ==
    [wsRef |-> 0,
     tsState |-> IF ref # 0 /\ st \in {"CONNECTING", "OPEN"} THEN "CLOSED" ELSE st]

\* The XR session ends.  The listener is there only once startVR() has got
\* past its await of the socket.
XREnd ==
    /\ xr \in {"awaitSocket", "looping"}
    /\ ~xrEnded
    /\ xrEnded' = TRUE
    /\ IF xr = "looping"
       THEN /\ xr' = "done"
            /\ wsRef' = EndListener(wsRef, tsState).wsRef
            /\ tsState' = EndListener(wsRef, tsState).tsState
       ELSE UNCHANGED <<xr, wsRef, tsState>>
    /\ Emit(<<>>)
    /\ UNCHANGED <<lastHandSendRef, now, t0, regular, accepted, tick, tUncaught>>
    /\ UNCHANGED svars
    /\ UNCHANGED xvars

\* onXRFrame, d after the tick before: without a viewer pose it only asks
\* for the next frame, else it calls handleHandTracking(frame, refSpace).
Tick(d, pose, sources, frame) ==
    /\ xr = "looping"
    /\ now' = now + d
    /\ t0' = IF t0 = -1 THEN now' ELSE t0
    /\ regular' = (regular /\ (t0 = -1 \/ d = TimeUnit))
    /\ tick' = IF pose THEN [sources |-> sources, frame |-> frame] ELSE tick
    /\ IF ~pose \/ GateDrops(now', lastHandSendRef)
       THEN /\ Emit(<<>>)
            /\ UNCHANGED <<lastHandSendRef, accepted, tUncaught>>
       ELSE LET handData == HandData(sources, frame)
                sends == DOMAIN handData # {}
            IN  /\ lastHandSendRef' = now'
                /\ accepted' = accepted + 1
                /\ Emit(IF sends THEN OnWire(wsRef, tsState, Frame(handData))
                        ELSE <<>>)
                /\ tUncaught' =
                     (tUncaught
                      \/ (sends /\ Escapes(SendThrows(wsRef, tsState), TRUE)))
    /\ lastSent' = IF out' # <<>> THEN now' ELSE lastSent
    /\ UNCHANGED <<xr, xrEnded, wsRef, tsState>>
    /\ UNCHANGED svars
    /\ UNCHANGED <<localCands, dcSent>>

\* The telemetry part under ticks that probe the rate gate.
InWindow(d) == t0 = -1 \/ now + d - t0 <= MaxWindow
GateNext ==
    \/ \E supported \in BOOLEAN, constructs \in BOOLEAN :
          StartVR(supported, constructs)
    \/ TsOpen
    \/ TsError
    \/ TsClose
    \/ XREnd
    \/ \E d \in GateSteps, sources \in GateSources, frame \in GateFrames :
          InWindow(d) /\ Tick(d, TRUE, sources, frame)

SpecGate == Init /\ [][GateNext]_vars

\* The telemetry part under ticks that probe the frames.
FrameNext ==
    \/ \E supported \in BOOLEAN, constructs \in BOOLEAN :
          StartVR(supported, constructs)
    \/ TsOpen
    \/ TsError
    \/ TsClose
    \/ XREnd
    \/ \E i \in FrameTicks :
          accepted < MaxFrames /\ Tick(i.d, i.pose, i.sources, i.frame)

SpecFrames == Init /\ [][FrameNext]_vars

\* Player: the media session's lifecycle next to the telemetry part.
PlayerNext ==
    \/ Mount
    \/ SetCall
    \/ Discard
    \/ RenegotiateResume
    \/ \E supported \in BOOLEAN, constructs \in BOOLEAN :
          StartVR(supported, constructs)
    \/ TsOpen
    \/ TsError
    \/ TsClose
    \/ XREnd
    \/ \E sources \in PlayerSources, frame \in GateFrames :
          accepted < MaxSamples /\ Tick(sendInterval, TRUE, sources, frame)

SpecPlayer == Init /\ [][PlayerNext]_vars

\* The telemetry part under ticks a display refresh or a full interval
\* apart, with no hand or the left hand in sight.
PacingSteps == {TimeUnit, sendInterval}
\* Bound: the time explored after the first tick (in TimeUnit: 20 ms).
MaxPacing == 60
PacingNext ==
    \/ \E supported \in BOOLEAN, constructs \in BOOLEAN :
          StartVR(supported, constructs)
    \/ TsOpen
    \/ TsError
    \/ TsClose
    \/ XREnd
    \/ \E d \in PacingSteps, sources \in PlayerSources, frame \in GateFrames :
          /\ (t0 = -1 \/ now + d - t0 <= MaxPacing)
          /\ Tick(d, TRUE, sources, frame)

SpecPacing == Init /\ [][PacingNext]_vars

----------------------------------------------------------------------------
\* Properties.

Live == {n \in DOMAIN sessions : ~sessions[n].closed}
LastThree == SubSeq(dirHist, Len(dirHist) - 2, Len(dirHist))

\* C1: every inbound offer envelope causes exactly one outbound sdp envelope
\* that carries an answer (counted once no handler is suspended any more; only
\* the offers the media stack can parse are counted), and no sdp envelope
\* without an answer goes out in its place.
C1_EachOfferAnswered ==
    handlers = <<>> =>
        /\ Answers(sent) = goodOffers
        /\ \A i \in 1..Len(sent) : ~IsEmptySdp(sent[i])

\* C2: an ICE candidate that arrived before its session's remote description
\* was set is added to the session once the description is set.
C2_EarlyCandidatesKept ==
    \A n \in DOMAIN sessions :
        (sessions[n].remote /\ ~sessions[n].closed /\ handlers = <<>>)
            => sessions[n].early \subseteq sessions[n].cands

\* C3: within each session the first video track goes to slot A and every
\* later video track to slot B.
C3_SlotsPerSession ==
    \A n \in DOMAIN sessions :
        \A i \in 1..Len(sessions[n].slots) :
            sessions[n].slots[i] = IF i = 1 THEN "A" ELSE "B"

\* What the code does keep of C3: within a session every video track after the
\* first goes to slot B, at most one track in all goes to slot A, and slot A,
\* once written, is never written again.
SlotsAfterFirst ==
    /\ \A n \in DOMAIN sessions :
          \A i \in 2..Len(sessions[n].slots) : sessions[n].slots[i] = "B"
    /\ Cardinality({n \in DOMAIN sessions :
                        sessions[n].slots # <<>> /\ sessions[n].slots[1] = "A"}) <= 1
    /\ streamsAdded <= 1
SlotAWrittenOnce == [][slotA # NoStream => slotA' = slotA]_vars

\* C4: on a session constructed by a renegotiation, the first video track
\* goes to slot A.
C4_FreshSessionFirstToA ==
    \A n \in DOMAIN sessions :
        (n > 1 /\ sessions[n].slots # <<>>) => sessions[n].slots[1] = "A"

\* C5: at most one session is live, it is the one pc.current holds, and every
\* session but the newest is closed (the previous one was closed before the
\* next was constructed).
C5_OneLiveSession ==
    /\ Cardinality(Live) <= 1
    /\ Live \subseteq {pc}
    /\ \A n \in DOMAIN sessions : n < Len(sessions) => sessions[n].closed

C5_Witness ==
    /\ Len(sessions) >= 2
    /\ pc = Len(sessions)
    /\ Live = {pc}
    /\ sessions[1].remote
    /\ sessions[1].cands # {}

\* C6: cleanup() throws on no state, leaves pc.current and dataChannel.current
\* null with their session and channel closed, and a second call right after
\* the first changes nothing more.
C6_CleanupIdempotent ==
    LET once == Cleanup(Refs)
        twice == Cleanup(once)
    IN  /\ ~CleanupThrows(Refs)
        /\ ~CleanupThrows(once)
        /\ once.pc = 0
        /\ once.dataChannel = 0
        /\ \A n \in DOMAIN sessions :
              /\ n = pc => once.sessions[n].closed
              /\ n = dataChannel => once.sessions[n].dc = "closed"
        /\ twice = once

\* cleanup() has run twice in a row (the effect's cleanup, then renegotiate's)
\* on a session with a data channel, and before any setup (at the mount).
C6_Witness ==
    /\ Len(dirHist) >= 2
    /\ sessions[1].closed
    /\ sessions[1].dc = "closed"
    /\ dataChannel = Len(sessions)
    /\ Cleanup(Refs) # Refs

\* C7: after `call` has changed to inactive no session is live.
C7_InactiveNoSession ==
    (phase = "mounted" /\ Len(dirHist) >= 2 /\ ~call) => (pc = 0 /\ Live = {})

\* C8: after activate, deactivate, activate exactly one session is live and
\* one socket has been opened, the one ws.current holds.
C8_ToggleOneSessionOneSocket ==
    (phase = "mounted" /\ Len(dirHist) >= 3 /\ LastThree = <<TRUE, FALSE, TRUE>>)
        => /\ Cardinality(Live) = 1
           /\ socketsOpened <= 1
           /\ pending = <<>> => (socketsOpened = 1 /\ ws = 1)

C8_Witness ==
    /\ phase = "mounted"
    /\ dirHist = <<TRUE, FALSE, TRUE>>
    /\ pending = <<>>
    /\ wsState = "OPEN"
    /\ socketsOpened = 1
    /\ Live = {3}

\* C9: over activate, deactivate, activate with the socket open since the
\* first activation, two HELLO envelopes are sent in all.
C9_TwoHellos ==
    (dirHist = <<TRUE, FALSE, TRUE>> /\ pending = <<>> /\ openAt = 1
        /\ wsState = "OPEN") => Hellos(sent) = 2

\* C10: a step sends at most one HELLO, and only on an open socket; the step
\* in which the socket opens sends one; a resumed renegotiate() of an
\* activation that finds the socket open sends one; a resumed renegotiate()
\* that finds the socket connecting sends none.
C10_HelloOnlyWhenOpen ==
    [][LET d == Hellos(sent') - Hellos(sent)
           resumed == pending # <<>> /\ pending' = Tail(pending)
       IN  /\ d \in {0, 1}
           /\ d = 1 => (ws' # 0 /\ wsState' = "OPEN")
           /\ (wsState = "CONNECTING" /\ wsState' = "OPEN") => d = 1
           /\ (resumed /\ Head(pending) /\ wsState = "OPEN") => d = 1
           /\ (resumed /\ wsState = "CONNECTING") => d = 0]_vars

\* An activation was deferred while the socket was connecting, the socket
\* opened, and two later renegotiations found it open.
C10_Witness ==
    /\ dirHist = <<FALSE, TRUE, FALSE, TRUE>>
    /\ openAt = 2
    /\ pending = <<>>
    /\ Hellos(sent) = 3

----------------------------------------------------------------------------
\* C11: whenever the directive becomes active while the signaling socket is
\* not connected (there is none, or the one there was has closed or erred),
\* the renegotiation opens a signaling connection, the first step towards
\* the HELLO.  In steps: a renegotiate() for an active directive that
\* resumes with no socket, or a closed one, leaves a socket connecting.
C11_ActivationConnects ==
    [][(/\ pending # <<>>
        /\ Head(pending)
        /\ pending' = Tail(pending)
        /\ wsState \in {"NONE", "CLOSED"})
       => wsState' = "CONNECTING"]_vars

----------------------------------------------------------------------------
\* Properties of the hand telemetry.

\* The last step put a frame on the wire; the hands it was sampled from.
FrameOnWire == out # <<>> /\ out[1].t = "frame"
Sampled == {tick.sources[i] : i \in {j \in DOMAIN tick.sources : tick.sources[j].hasHand}}
\* The 16 values at the place of the i-th joint (from 1) in a joint array
\* (none when the array ends before).
Slot(arr, i) ==
    IF Len(arr) >= 16 * i THEN SubSeq(arr, 16 * (i - 1) + 1, 16 * i) ELSE <<>>
Joints == DOMAIN JOINT_ORDER

\* C12: for every tracked hand, whatever joints of it resolve (none, some,
\* all, or no getJointPose at all), the joint array sent has exactly 400
\* numbers, and the 16 values of every joint that does not resolve are the
\* identity matrix.
C12_FullFrameIdentityFill ==
    FrameOnWire =>
        \A src \in Sampled :
            LET arr == out[1].data[src.handedness]
            IN  /\ Len(arr) = 400
                /\ \A i \in Joints :
                       ~Resolved(src.hand, tick.frame, JOINT_ORDER[i])
                       => Slot(arr, i) = Identity

\* Reached: a frame sent for a hand of which some joints resolve and some
\* do not.
C12_Witness ==
    /\ FrameOnWire
    /\ \E src \in Sampled :
          /\ \E i \in Joints : Resolved(src.hand, tick.frame, JOINT_ORDER[i])
          /\ \E i \in Joints : ~Resolved(src.hand, tick.frame, JOINT_ORDER[i])
          /\ \E i \in Joints : HandGet(src.hand, JOINT_ORDER[i]) = NoJoint

\* C13: the values at 16i .. 16i+15 of a joint array are those of the i-th
\* joint of the canonical order (its transform, or the identity), in
\* whatever order the hand enumerates its joints.
C13_CanonicalOrder ==
    FrameOnWire =>
        \A src \in Sampled : \A i \in Joints :
            Slot(out[1].data[src.handedness], i) =
                IF Resolved(src.hand, tick.frame, JOINT_ORDER[i])
                THEN JointMatrix(JointSpace(src.handedness, i))
                ELSE Identity

\* Reached: a frame sent for a hand that enumerates its joints in another
\* order than the canonical one, with poses for them.
C13_Witness ==
    /\ FrameOnWire
    /\ \E src \in Sampled :
          /\ Len(src.hand) = Len(JOINT_ORDER)
          /\ src.hand[1].name # JOINT_ORDER[1]
          /\ \A i \in Joints : Resolved(src.hand, tick.frame, JOINT_ORDER[i])

\* C15: a telemetry frame message has a key for a handedness exactly when a
\* hand of that handedness was tracked at its tick, so no key but left and
\* right; every key holds a full array of 400 values.
C15_KeysAreTrackedHands ==
    FrameOnWire =>
        /\ DOMAIN out[1].data = {src.handedness : src \in Sampled}
        /\ DOMAIN out[1].data \subseteq {"left", "right"}
        /\ DOMAIN out[1].data # {}
        /\ \A k \in DOMAIN out[1].data : Len(out[1].data[k]) = 400

\* Reached: a frame sent at a tick with a tracked left hand and a right
\* input source that is no hand.
C15_Witness ==
    /\ FrameOnWire
    /\ DOMAIN out[1].data = {"left"}
    /\ \E i \in DOMAIN tick.sources :
          tick.sources[i].handedness = "right" /\ ~tick.sources[i].hasHand

C16_RoleFirst ==
    /\ tfirst \in {"none", "role"}
    /\ tsState = "OPEN" => tfirst = "role"
    /\ FrameOnWire => tfirst = "role" /\ tcount >= 2

\* Reached: a frame on the wire, the second message of its connection.
C16_Witness == FrameOnWire /\ tcount = 2 /\ tfirst = "role"

\* C17: a tick that samples a frame while the telemetry socket is absent or
\* not open drops it: nothing goes on the wire, then or later, but the frame
\* of the tick at hand; no error escapes the handler; the loop goes on.
C17_DroppedNotBuffered ==
    [][(xr = "looping" /\ accepted' = accepted + 1) =>
        /\ tUncaught' = tUncaught
        /\ xr' = "looping"
        /\ (wsRef = 0 \/ tsState # "OPEN") => out' = <<>> /\ tcount' = tcount
        /\ out' # <<>> =>
              /\ wsRef # 0 /\ tsState = "OPEN"
              /\ out' = <<Frame(HandData(tick'.sources, tick'.frame))>>
              /\ tcount' = tcount + 1
      ]_vars

\* Reached: the second of two sampled frames dropped with no socket, the
\* loop still running.
C17_Witness ==
    /\ xr = "looping"
    /\ accepted >= 2
    /\ Sampled # {}
    /\ wsRef = 0
    /\ out = <<>> /\ tcount = 0
    /\ ~tUncaught

\* C18: whenever the media session ends (cleanup() closes it), the telemetry
\* connection is closed.
C18_TeardownClosesTelemetry ==
    [][(\E n \in DOMAIN sessions : ~sessions[n].closed /\ sessions'[n].closed)
       => tsState' \notin {"CONNECTING", "OPEN"}]_vars

----------------------------------------------------------------------------
\* Properties of the order of the signaling handlers.

\* A suspended offer handler that has not failed still has effects to come:
\* createAnswer, setLocalDescription, the answer's send.
EffectsToCome(h) == h.kind = "offer" /\ h.ok

\* C19: envelopes take effect in arrival order: when an envelope has its
\* first effect on the session or the wire, every effect of the envelopes
\* before it has taken place, also when it arrives while the handling of an
\* earlier one is suspended.
C19_EffectsInArrivalOrder ==
    [][(inCount' = inCount + 1 /\ (sessions' # sessions \/ sent' # sent))
       => \A i \in DOMAIN handlers : ~EffectsToCome(handlers[i])]_vars

\* C20: when a renegotiation has replaced the session while an offer's
\* handling was suspended, the steps that are left do nothing to the new
\* session, and every answer emitted was created by the session its offer
\* was set on.
C20_LateStepsNotOnNewSession ==
    [][(/\ handlers # <<>> /\ handlers' # handlers /\ inCount' = inCount
        /\ Head(handlers).kind = "offer")
       => /\ (pc # 0 /\ Head(handlers).on # pc)
                => sessions' = sessions
          /\ Answers(sent') > Answers(sent)
                => Head(handlers).answer = Head(handlers).on]_vars

----------------------------------------------------------------------------
\* Properties of failures and of what goes out.

\* C21: when the handling of an offer fails (setRemoteDescription,
\* createAnswer or setLocalDescription rejects), the session the offer was
\* set on is closed and no answer is emitted for the offer.
C21_FailedOfferClosesSession ==
    [][(/\ handlers # <<>> /\ inCount' = inCount
        /\ handlers' = Tail(handlers)
        /\ Head(handlers).kind = "offer" /\ ~Head(handlers).ok)
       => /\ sessions'[Head(handlers).on].closed
          /\ Answers(sent') = Answers(sent)]_vars

\* C22: a failure to add an inbound ICE candidate is not fatal: the call
\* leaves the session as it was (but for the note of the early candidate),
\* the rejection is caught, and the handler ends with session, ref and wire
\* untouched.
C22_IceFailureNotFatal ==
    [][/\ (/\ inCount' = inCount + 1
           /\ Len(handlers') = Len(handlers) + 1
           /\ handlers'[Len(handlers')].kind = "ice"
           /\ ~handlers'[Len(handlers')].ok)
          => /\ pc' = pc
             /\ [sessions'[pc] EXCEPT !.early = sessions[pc].early] = sessions[pc]
             /\ ~sessions'[pc].closed
             /\ uncaught' = uncaught
       /\ (/\ handlers # <<>> /\ inCount' = inCount
           /\ handlers' = Tail(handlers)
           /\ Head(handlers).kind = "ice" /\ ~Head(handlers).ok)
          => /\ sessions' = sessions /\ pc' = pc /\ sent' = sent
             /\ uncaught' = uncaught
      ]_vars

\* Reached: a session that refused an early candidate and afterwards took
\* an offer and answered it, with no error escaped.
C22_Witness ==
    /\ pc # 0 /\ ~sessions[pc].closed
    /\ sessions[pc].early # {}
    /\ sessions[pc].remote
    /\ \E i \in DOMAIN sent : sent[i] = SdpMsg(pc)
    /\ handlers = <<>>
    /\ ~uncaught

\* C23: each local ICE candidate goes out as exactly one ice envelope when
\* the signaling socket is there and open; otherwise it is dropped, with no
\* error and nothing kept: ice envelopes appear on the wire only in the step
\* of their candidate.
C23_CandidateSentOnceWhenOpen ==
    [][/\ IceMsgs(sent') - IceMsgs(sent)
            = IF localCands' # localCands /\ ws # 0 /\ wsState = "OPEN"
              THEN 1 ELSE 0
       /\ localCands' # localCands
          => /\ uncaught' = uncaught
             /\ handlers' = handlers /\ pending' = pending
             /\ sent' \in {sent} \cup {Append(sent, IceMsg(c)) : c \in Cands}
      ]_vars

\* Reached: one candidate sent while the socket was open, another dropped
\* after it closed, no error escaped.
C23_Witness ==
    /\ localCands = 2
    /\ IceMsgs(sent) = 1
    /\ wsState = "CLOSED"
    /\ ~uncaught

\* C24: a data channel offered by the remote peer is only recorded and
\* logged: the component itself never sends a message on a data channel.
C24_NeverSendsOnChannel == dcSent = 0

\* C25: every sdp envelope sent carries an answer: none goes out with an
\* absent description, in particular not for an offer that arrives while no
\* session exists.
C25_SdpCarriesAnswer ==
    \A i \in 1..Len(sent) : sent[i].t = "sdp" => IsAnswer(sent[i])

\* C26: after the component is discarded its signaling socket is closed, and
\* its message handler sends nothing and starts nothing any more.
C26_DiscardClosesSocket ==
    phase = "discarded" =>
        /\ ws = 0 \/ wsState = "CLOSED"
        /\ handlers = <<>>

\* C27: a tick that passes the rate gate without sending does not use up the
\* interval: a tick that finds a tracked hand and the telemetry socket open,
\* a full interval or more after the last tick that sent a frame (with no
\* frame sent yet: after the time origin), sends a frame.
C27_EmptyTicksKeepBudget ==
    [][(/\ xr = "looping" /\ now' > now
        /\ Sampled' # {}
        /\ wsRef # 0 /\ tsState = "OPEN"
        /\ now' - (IF lastSent = -1 THEN 0 ELSE lastSent) >= sendInterval)
       => (out' # <<>> /\ out'[1].t = "frame")
      ]_vars

\* C28: the setup of the telemetry connection always completes: while the
\* start sequence waits for it, a socket is connecting whose open or error
\* event ends the wait and lets the frame loop start.
C28_SetupCompletes == xr = "awaitSocket" => tsState = "CONNECTING"
====
